---------------------------- MODULE Spec2Model ----------------------------
(***************************************************************************)
(* A model of the clinical-decision-support pipeline of med-m:             *)
(*   - src/hugging_face_ner.py : process_ner_output,                       *)
(*                               generate_clean_ner_report, run_medical_ner*)
(*   - flow.py                 : CdssPipeline, a crewai Flow of six        *)
(*                               @start/@listen methods                    *)
(*   - app.py                  : the six FastAPI handlers                  *)
(*                                                                         *)
(* Python strings that the code takes apart are modelled as sequences of   *)
(* symbols.  The symbol "_" stands for the SentencePiece word-boundary     *)
(* mark U+2581; "[CLS]" and "[SEP]" are single symbols; a label such as    *)
(* B-AGE is <<"B","-","AGE">>.  None is <<>> and a present value v is      *)
(* <<v>> wherever a Python name may hold None.  A dict is a function on    *)
(* its keys.                                                               *)
(*                                                                         *)
(* Four specifications share the module: NerSpec (run_medical_ner),        *)
(* ExtractSpec (extract_diagnosis_method on every shape of its argument),  *)
(* FlowSpec (one run of CdssPipeline.kickoff) and HttpSpec (the handlers). *)
(***************************************************************************)
EXTENDS Naturals, Integers, Sequences, FiniteSets, TLC

VARIABLES
    (* ---- run_medical_ner ---- *)
    n_pc,          \* "idle" | "input" | "processed" | "done"
    n_result,      \* list(zip(tokens, predicted_labels)), hugging_face_ner.py:39
    n_tagged,      \* filtered_result
    n_tags,        \* unique_tags
    n_report,      \* outcome of generate_clean_ner_report
    (* ---- extract_diagnosis_method ---- *)
    x_pc,          \* "idle" | "input" | "done"
    x_report,      \* the argument prelim_report
    x_out,         \* what the call returned or that it raised
    (* ---- CdssPipeline ---- *)
    flow_status,   \* "idle" | "created" | "running" | "finished" | "failed"
    sample_text,   \* self.sample_text
    state,         \* self.state
    m_status,      \* per method: "idle" | "running" | "done" | "raised"
    exec_count,    \* per method: how often it was started in this run
    arg,           \* per method: the argument of its last start, None without one
    ret,           \* per method: its return value, None before it returned
    pending_and,   \* the flow's _pending_and_listeners
    order,         \* the methods in the order they were started
    crew_inputs,   \* per crew: the inputs of its last kickoff
    (* ---- FastAPI handlers ---- *)
    h_pc,          \* "off" | "idle" | "calling" | "responded"
    h_endpoint,    \* the route of the request being handled
    h_request,     \* its body
    h_calls,       \* calls of the wrapped crew or helper made for it
    h_outcome,     \* what the wrapped call did
    h_response,    \* how the request ended
    h_served       \* requests answered so far

n_vars == <<n_pc, n_result, n_tagged, n_tags, n_report>>

x_vars == <<x_pc, x_report, x_out>>

f_vars == <<flow_status, sample_text, state, m_status, exec_count, arg, ret,
            pending_and, order, crew_inputs>>

h_vars == <<h_pc, h_endpoint, h_request, h_calls, h_outcome, h_response, h_served>>

vars == <<n_vars, x_vars, f_vars, h_vars>>

-----------------------------------------------------------------------------
(* Bounds of the model *)

\* positions of a tagger output in NerSpec
MaxTokens == 3

\* entries of a preliminary report in ExtractSpec
MaxEntries == 2

\* positions of a tagger output and entries of a preliminary report in FlowSpec
FlowMaxTokens == 1

FlowMaxEntries == 1

\* requests the server answers in HttpSpec
MaxRequests == 2

-----------------------------------------------------------------------------
(* Python helpers *)

None == <<>>

Some(v) == <<v>>

\* the sequences over S of length at most n
SeqUpTo(S, n) == UNION {[1..k -> S] : k \in 0..n}

\* s.startswith(p)
startswith(s, p) ==
    /\ Len(s) >= Len(p)
    /\ \A i \in 1..Len(p) : s[i] = p[i]

\* s[k:] for a 0-based k
slice_from(s, k) == SubSeq(s, k + 1, Len(s))

RECURSIVE lstrip(_, _)
\* s.lstrip(c): drop every leading c
lstrip(s, c) ==
    IF s # <<>> /\ Head(s) = c THEN lstrip(Tail(s), c) ELSE s

\* s.replace(c, ''): drop every c
replace_all(s, c) == SelectSeq(s, LAMBDA x : x # c)

RECURSIVE join(_, _)
\* sep.join(parts)
join(sep, parts) ==
    IF parts = <<>> THEN <<>>
    ELSE IF Len(parts) = 1 THEN parts[1]
    ELSE parts[1] \o sep \o join(sep, Tail(parts))

\* d[k] = d[k] + [v] for an existing key k
dict_append(d, k, v) == [d EXCEPT ![k] = Append(@, v)]

-----------------------------------------------------------------------------
(* The tagger's vocabulary: tokens of the tokenizer and labels of           *)
(* model.config.id2label (O, B-<category>, I-<category>).                  *)

Categories == {"AGE", "SEX", "SEVERITY"}

Labels ==
    {<<"O">>} \cup {<<"B", "-", c>> : c \in Categories}
              \cup {<<"I", "-", c>> : c \in Categories}

TokenVocab == {<<"_", "a">>, <<"b">>, <<"[CLS]">>, <<"[SEP]">>}

\* what tokenizer + model can produce for a text: one (token, label) per position
NerResults == SeqUpTo(TokenVocab \X Labels, MaxTokens)

-----------------------------------------------------------------------------
(* hugging_face_ner.py *)

\* the comprehension of lines 40-43
filtered_result(result) ==
    LET kept == SelectSeq(result, LAMBDA p : p[2] # <<"O">>)
    IN  [i \in 1..Len(kept) |-> <<lstrip(kept[i][1], "_"), kept[i][2]>>]

RECURSIVE unique_tags_with_duplicates(_, _)
\* the loop of lines 46-49 without its "not in unique_tags" test
unique_tags_with_duplicates(labels, acc) ==
    IF labels = <<>> THEN acc
    ELSE LET entry == Head(labels)
         IN  IF startswith(entry, <<"B">>)
             THEN unique_tags_with_duplicates(Tail(labels), Append(acc, slice_from(entry, 2)))
             ELSE unique_tags_with_duplicates(Tail(labels), acc)

RECURSIVE unique_tags_loop(_, _)
\* the loop of lines 46-49 over predicted_labels, unique_tags so far in acc
unique_tags_loop(labels, acc) ==
    IF labels = <<>> THEN acc
    ELSE LET entry == Head(labels)
             cat   == slice_from(entry, 2)
         IN  IF startswith(entry, <<"B">>) /\ \A i \in 1..Len(acc) : acc[i] # cat
             THEN unique_tags_loop(Tail(labels), Append(acc, cat))
             ELSE unique_tags_loop(Tail(labels), acc)

\* process_ner_output past the tokenizer and the model: result is
\* list(zip(tokens, predicted_labels)); returns (filtered_result, unique_tags)
process_ner_output(result) ==
    LET predicted_labels == [i \in 1..Len(result) |-> result[i][2]]
    IN  <<filtered_result(result), unique_tags_loop(predicted_labels, <<>>)>>

unwanted_tokens == {<<"[CLS]">>, <<"[SEP]">>}

\* line 61: report = {tag: [] for tag in unique_tags if tag != "SEVERITY"}
initial_report(unique_tags) ==
    LET keys == {unique_tags[i] : i \in 1..Len(unique_tags)} \ {<<"SEVERITY">>}
    IN  [k \in keys |-> <<>>]

\* report[current_label].append(" ".join(current_entity)); a missing key is a
\* KeyError (st.error)
flush(st) ==
    IF st.current_entity = <<>> THEN st
    ELSE IF st.current_label = None \/ st.current_label[1] \notin DOMAIN st.report
         THEN [st EXCEPT !.error = TRUE]
         ELSE [st EXCEPT !.report =
                  dict_append(@, st.current_label[1], join(<<" ">>, st.current_entity))]

\* one iteration of the loop of lines 65-80
report_step(st, pair) ==
    LET token == replace_all(pair[1], "_")
        tag   == pair[2]
    IN  IF token \in unwanted_tokens THEN st
        ELSE IF startswith(tag, <<"B", "-">>)
        THEN LET f == flush(st)
             IN  IF f.error THEN f
                 ELSE [f EXCEPT !.current_entity = <<token>>,
                                !.current_label = Some(slice_from(tag, 2))]
        ELSE IF startswith(tag, <<"I", "-">>) /\ st.current_label = Some(slice_from(tag, 2))
        THEN [st EXCEPT !.current_entity = Append(@, token)]
        ELSE LET f == flush(st)
             IN  IF f.error THEN f
                 ELSE [f EXCEPT !.current_entity = <<>>, !.current_label = None]

RECURSIVE report_loop(_, _)
report_loop(st, tagged_tokens) ==
    IF st.error \/ tagged_tokens = <<>> THEN st
    ELSE report_loop(report_step(st, Head(tagged_tokens)), Tail(tagged_tokens))

\* generate_clean_ner_report: [error |-> TRUE] is the KeyError of lines 72/79/83,
\* otherwise report is the returned dict
generate_clean_ner_report(tagged_tokens, unique_tags) ==
    LET st0 == [report |-> initial_report(unique_tags), current_entity |-> <<>>,
                current_label |-> None, error |-> FALSE]
        st1 == report_loop(st0, tagged_tokens)
        st2 == IF st1.error THEN st1 ELSE flush(st1)
    IN  IF st2.error THEN [error |-> TRUE,  report |-> <<>>]
                     ELSE [error |-> FALSE, report |-> st2.report]

\* run_medical_ner past the tokenizer and the model
run_medical_ner(result) ==
    LET out == process_ner_output(result)
    IN  generate_clean_ner_report(out[1], out[2])

-----------------------------------------------------------------------------
(* The values prelim_diag_crew.kickoff can hand to extract_diagnosis_method *)
(*                                                                         *)
(* A report is a CrewOutput (an object that answers ["entries"] from its   *)
(* structured output), a dict, or raw text.  Its "entries", when present,  *)
(* is a list or None.  An entry is an object (attribute access) or a dict  *)
(* (key access), with or without preliminary_diagnosis.                    *)

Diagnoses == {"flu", "cold"}

Entries ==
    [kind : {"dict", "object"}, has_diag : {TRUE}, preliminary_diagnosis : Diagnoses]
    \cup [kind : {"dict", "object"}, has_diag : {FALSE}, preliminary_diagnosis : {""}]

ReportsUpTo(n) ==
    [kind : {"CrewOutput", "dict"}, has_entries : {TRUE}, entries_is_list : {TRUE},
     entries : SeqUpTo(Entries, n), text : {""}]
    \cup [kind : {"CrewOutput", "dict"}, has_entries : {TRUE}, entries_is_list : {FALSE},
          entries : {<<>>}, text : {""}]
    \cup [kind : {"CrewOutput", "dict"}, has_entries : {FALSE}, entries_is_list : {FALSE},
          entries : {<<>>}, text : {""}]
    \cup [kind : {"str"}, has_entries : {FALSE}, entries_is_list : {FALSE},
          entries : {<<>>}, text : Diagnoses]

Reports == ReportsUpTo(MaxEntries)

\* a Python str with the given content
Text(s) == <<"text", s>>

\* str(v): raw text is itself, any other value is rendered
str(v) == IF v.kind = "str" THEN Text(v.text) ELSE <<"str", v>>

\* what a call returned, or that it raised
Returned(v) == [raised |-> FALSE, value |-> v]

Raised == [raised |-> TRUE, value |-> <<>>]

\* prelim_report["entries"] followed by iteration: raises on text (TypeError),
\* on a missing key (KeyError) and on None (TypeError)
can_iterate_entries(prelim_report) ==
    /\ prelim_report.kind \in {"CrewOutput", "dict"}
    /\ prelim_report.has_entries
    /\ prelim_report.entries_is_list

\* entry.preliminary_diagnosis: AttributeError on a dict and on an object without it
has_attribute(entry) == entry.kind = "object" /\ entry.has_diag

\* e["preliminary_diagnosis"]: KeyError on a dict without it, TypeError on an object
has_key(entry) == entry.kind = "dict" /\ entry.has_diag

diagnoses_of(entries) ==
    [i \in 1..Len(entries) |-> Text(entries[i].preliminary_diagnosis)]

\* flow.py:60, the body of the try
try_attributes(prelim_report) ==
    IF /\ can_iterate_entries(prelim_report)
       /\ \A i \in 1..Len(prelim_report.entries) : has_attribute(prelim_report.entries[i])
    THEN Returned(diagnoses_of(prelim_report.entries))
    ELSE Raised

\* flow.py:61-66, the except handler; what it raises leaves the method
fallback(prelim_report) ==
    IF prelim_report.kind = "dict" /\ prelim_report.has_entries
    THEN IF /\ prelim_report.entries_is_list
            /\ \A i \in 1..Len(prelim_report.entries) : has_key(prelim_report.entries[i])
         THEN Returned(diagnoses_of(prelim_report.entries))
         ELSE Raised
    ELSE Returned(<<str(prelim_report)>>)

\* CdssPipeline.extract_diagnosis_method
extract_diagnosis_method(prelim_report) ==
    LET tried == try_attributes(prelim_report)
    IN  IF tried.raised THEN fallback(prelim_report) ELSE tried

-----------------------------------------------------------------------------
(* flow.py: the flow graph that the decorators of CdssPipeline declare *)

Methods ==
    {"initial_hugging_face_ner_report", "ner_validation_method", "prelim_diag_method",
     "extract_diagnosis_method", "best_practises", "report_writing_method"}

\* the methods in the order the class body defines them
DefinitionOrder ==
    <<"initial_hugging_face_ner_report", "ner_validation_method", "prelim_diag_method",
      "extract_diagnosis_method", "best_practises", "report_writing_method">>

\* @start()
start_methods == {"initial_hugging_face_ner_report"}

\* a plain @listen(m) is an OR condition over {m}
listen(m) == [type |-> "OR", methods |-> {m}]

\* and_(...)
and_(ms) == [type |-> "AND", methods |-> ms]

\* @listen(initial_hugging_face_ner_report)
ner_validation_listens == listen("initial_hugging_face_ner_report")

\* @listen(ner_validation_method)
prelim_diag_listens == listen("ner_validation_method")

\* extract_diagnosis_method without its decorator: it listens to nothing
extract_diagnosis_unlistened == [type |-> "OR", methods |-> {}]

\* @listen(prelim_diag_method)
extract_diagnosis_listens == listen("prelim_diag_method")

\* best_practises listening to the wrong upstream method
best_practises_listens_prelim == listen("prelim_diag_method")

\* @listen(extract_diagnosis_method)
best_practises_listens == listen("extract_diagnosis_method")

\* the three triggers of report_writing_method joined by or_ instead of and_
report_writing_listens_any ==
    [type |-> "OR",
     methods |-> {"ner_validation_method", "prelim_diag_method", "best_practises"}]

\* @listen(and_(ner_validation_method, prelim_diag_method, best_practises))
report_writing_listens ==
    and_({"ner_validation_method", "prelim_diag_method", "best_practises"})

\* the flow's _listeners
listeners ==
    [m \in Methods \ start_methods |->
        CASE m = "ner_validation_method"    -> ner_validation_listens
          [] m = "prelim_diag_method"       -> prelim_diag_listens
          [] m = "extract_diagnosis_method" -> extract_diagnosis_listens
          [] m = "best_practises"           -> best_practises_listens
          [] m = "report_writing_method"    -> report_writing_listens]

\* whether the method's signature has a parameter besides self; a listener
\* without one is called without the trigger's result
has_parameter(m) ==
    m \in {"ner_validation_method", "prelim_diag_method",
           "extract_diagnosis_method", "best_practises"}

\* d[k] = v
dict_set(d, k, v) == [x \in DOMAIN d \cup {k} |-> IF x = k THEN v ELSE d[x]]

\* d.get(k, default)
get(d, k, default) == IF k \in DOMAIN d THEN d[k] ELSE default

\* _pending_and_listeners[l] once trigger has completed: registered with all
\* its methods when first looked at, then without the trigger
pending_after(l, trigger, pending) ==
    (IF l \in DOMAIN pending THEN pending[l] ELSE listeners[l].methods) \ {trigger}

\* the listeners that the completion of trigger starts
triggered_by(trigger, pending) ==
    {l \in DOMAIN listeners :
        IF listeners[l].type = "OR"
        THEN trigger \in listeners[l].methods
        ELSE pending_after(l, trigger, pending) = {}}

\* _pending_and_listeners after the completion of trigger: a listener that
\* fires is popped
pending_and_after(trigger, pending) ==
    LET and_listeners == {l \in DOMAIN listeners : listeners[l].type = "AND"}
        kept == {l \in and_listeners : pending_after(l, trigger, pending) # {}}
    IN  [l \in kept |-> pending_after(l, trigger, pending)]

\* method m returns result: its listeners are looked up and every triggered
\* one is started, with the result when it takes a parameter; the run is
\* over when nothing is left running
Complete(m, result) ==
    LET started == triggered_by(m, pending_and)
        status1 == [x \in Methods |->
                       IF x \in started THEN "running"
                       ELSE IF x = m THEN "done" ELSE m_status[x]]
    IN  /\ m_status' = status1
        /\ ret' = [ret EXCEPT ![m] = Some(result)]
        /\ pending_and' = pending_and_after(m, pending_and)
        /\ arg' = [x \in Methods |->
                      IF x \in started
                      THEN (IF has_parameter(x) THEN Some(result) ELSE None)
                      ELSE arg[x]]
        /\ exec_count' = [x \in Methods |->
                             IF x \in started THEN exec_count[x] + 1 ELSE exec_count[x]]
        /\ order' = order \o SelectSeq(DefinitionOrder, LAMBDA x : x \in started)
        /\ flow_status' = IF \E x \in Methods : status1[x] = "running"
                          THEN "running" ELSE "finished"

\* method m raises: the exception leaves kickoff and nothing more is started
Abort(m) ==
    /\ m_status' = [m_status EXCEPT ![m] = "raised"]
    /\ flow_status' = "failed"
    /\ UNCHANGED <<ret, pending_and, arg, exec_count, order>>

-----------------------------------------------------------------------------
(* flow.py: what the external services can answer *)

SampleTexts == {"note_1", "note_2"}

\* ner_validation_crew.kickoff(...)
PostNerReports == {"validated_1", "validated_2"}

\* report_writing_crew.kickoff(...)
FinalReports == {"final_1", "final_2"}

\* tagger outputs and preliminary reports in a run of the flow
FlowNerResults == SeqUpTo(TokenVocab \X Labels, FlowMaxTokens)

FlowReports == ReportsUpTo(FlowMaxEntries)

\* result.get("score", 0) > 0.5, scores in tenths
ScoreThresholdTenths == 5

\* tavily_client.search(...): no "results" key, or results with and without
\* the keys the code reads
TavilyResponses ==
    { <<>>,
      [results |-> << [title |-> "t1", url |-> "u1", content |-> "c1", score |-> 9],
                      [title |-> "t2", url |-> "u2", content |-> "c2", score |-> 5] >>],
      [results |-> << [title |-> "t3", score |-> 7], [url |-> "u4"] >>] }

\* the comprehension of flow.py:82-90
practices(response) ==
    LET all  == get(response, "results", <<>>)
        kept == SelectSeq(all, LAMBDA r : get(r, "score", 0) > ScoreThresholdTenths)
    IN  [i \in 1..Len(kept) |->
            [title   |-> get(kept[i], "title", ""),
             url     |-> get(kept[i], "url", ""),
             summary |-> get(kept[i], "content", "")]]

\* the loop of flow.py:77-94, responses[i] being the answer to the i-th search
best_practices_summary(diagnosis, responses) ==
    [i \in 1..Len(diagnosis) |->
        [best_practices_for |-> diagnosis[i], practices |-> practices(responses[i])]]

\* self.state["post_ner_report"] = post_ner_report
store_post_ner_report(st, v) == dict_set(st, "post_ner_report", v)

\* prelim_diag_method storing under the key of ner_validation_method
store_prelim_report_as_post_ner(st, v) == dict_set(st, "post_ner_report", v)

\* self.state["prelim_report"] = prelim_report
store_prelim_report(st, v) == dict_set(st, "prelim_report", v)

\* self.state["best_practices_summary"] = best_practices_summary
store_best_practices_summary(st, v) == dict_set(st, "best_practices_summary", v)

\* the keys report_writing_method reads from self.state
report_state_keys == {"post_ner_report", "prelim_report", "best_practices_summary"}

-----------------------------------------------------------------------------
(* app.py: the six handlers *)

Endpoints ==
    {"/agent/ner/", "/agent/prelim/", "/agent/report/",
     "/medicine/query", "/medicine/info", "/medicine/compare"}

\* the request bodies: InputText, MedicineQuery, MedicineInfoRequest and
\* MedicineComparisonRequest
RequestBodies(endpoint) ==
    CASE endpoint \in {"/agent/ner/", "/agent/prelim/", "/agent/report/"}
            -> [text : {"note_1", "note_2"}]
      [] endpoint = "/medicine/query"   -> [query : {"q1", "q2"}]
      [] endpoint = "/medicine/info"    -> [medicine_name : {"paracetamol", "ibuprofen"}]
      [] endpoint = "/medicine/compare"
            -> [original_medicine : {"paracetamol"},
                alternative_medicine : {"ibuprofen", "aspirin"}]

\* what the wrapped call returns: a CrewOutput, the answer of the language
\* model, a MedicineInfoOutput or a MedicineComparisonOutput
CallResults(endpoint) ==
    CASE endpoint \in {"/agent/ner/", "/agent/prelim/", "/agent/report/"}
            -> [class : {"CrewOutput"}, raw : {"out_1", "out_2"}]
      [] endpoint = "/medicine/query"   -> {"answer_1", "answer_2"}
      [] endpoint = "/medicine/info"
            -> [class : {"MedicineInfoOutput"},
                fields : [name : {"paracetamol"}, composition : {"c1", "c2"}]]
      [] endpoint = "/medicine/compare"
            -> [class : {"MedicineComparisonOutput"},
                fields : [are_equivalent : BOOLEAN, reasoning : {"r1"}]]

\* what the wrapped call raises
Exceptions == [class : {"Exception"}, message : {"timeout", "quota"}]

\* str(e)
exception_message(e) == e.message

\* the f-string prefix of each handler's except clause
error_prefix(endpoint) ==
    CASE endpoint = "/agent/ner/"       -> "NER Error: "
      [] endpoint = "/agent/prelim/"    -> "Prelim Error: "
      [] endpoint = "/agent/report/"    -> "Report Error: "
      [] endpoint = "/medicine/query"   -> "RAG Error: "
      [] endpoint = "/medicine/info"    -> "MedicineInfo Error: "
      [] endpoint = "/medicine/compare" -> "MedicineCompare Error: "

\* the return statement of each handler's try
on_success(endpoint, result) ==
    [kind |-> "response", status_code |-> 200, detail |-> <<>>,
     body |-> CASE endpoint \in {"/agent/ner/", "/agent/prelim/", "/agent/report/"}
                     -> [response |-> result.raw]
               [] endpoint = "/medicine/query" -> [response |-> result]
               [] endpoint \in {"/medicine/info", "/medicine/compare"} -> result.fields]

\* a handler without its except clause: the exception leaves the handler
on_exception_uncaught(endpoint, e) ==
    [kind |-> "unhandled", status_code |-> 0, detail |-> <<>>, body |-> <<>>]

\* except Exception as e: raise HTTPException(status_code=500, detail=f"<prefix>{str(e)}")
on_exception(endpoint, e) ==
    [kind |-> "HTTPException", status_code |-> 500,
     detail |-> <<error_prefix(endpoint), exception_message(e)>>, body |-> <<>>]

-----------------------------------------------------------------------------
(* What each part of the state holds while another specification runs *)

NerIdle ==
    /\ n_pc = "idle"
    /\ n_result = <<>>
    /\ n_tagged = <<>>
    /\ n_tags = <<>>
    /\ n_report = [error |-> FALSE, report |-> <<>>]

ExtractIdle ==
    /\ x_pc = "idle"
    /\ x_report = <<>>
    /\ x_out = Returned(<<>>)

FlowIdle ==
    /\ flow_status = "idle"
    /\ sample_text = ""
    /\ state = <<>>
    /\ m_status = <<>>
    /\ exec_count = <<>>
    /\ arg = <<>>
    /\ ret = <<>>
    /\ pending_and = <<>>
    /\ order = <<>>
    /\ crew_inputs = <<>>

HttpIdle ==
    /\ h_pc = "off"
    /\ h_endpoint = ""
    /\ h_request = <<>>
    /\ h_calls = 0
    /\ h_outcome = Returned(<<>>)
    /\ h_response = <<>>
    /\ h_served = 0

-----------------------------------------------------------------------------
(* Specification NerSpec: run_medical_ner on every tagger output *)

NerInit ==
    /\ n_pc = "input"
    /\ n_result \in NerResults
    /\ n_tagged = <<>>
    /\ n_tags = <<>>
    /\ n_report = [error |-> FALSE, report |-> <<>>]
    /\ ExtractIdle /\ FlowIdle /\ HttpIdle

\* hugging_face_ner.py:96
NerProcess ==
    /\ n_pc = "input"
    /\ n_pc' = "processed"
    /\ n_tagged' = process_ner_output(n_result)[1]
    /\ n_tags' = process_ner_output(n_result)[2]
    /\ UNCHANGED <<n_result, n_report, x_vars, f_vars, h_vars>>

\* hugging_face_ner.py:97
NerReport ==
    /\ n_pc = "processed"
    /\ n_pc' = "done"
    /\ n_report' = generate_clean_ner_report(n_tagged, n_tags)
    /\ UNCHANGED <<n_result, n_tagged, n_tags, x_vars, f_vars, h_vars>>

NerNext == NerProcess \/ NerReport

NerSpec == NerInit /\ [][NerNext]_vars

-----------------------------------------------------------------------------
(* Specification ExtractSpec: extract_diagnosis_method on every report *)

ExtractDiagnosis ==
    /\ x_pc = "input"
    /\ x_pc' = "done"
    /\ x_out' = extract_diagnosis_method(x_report)
    /\ UNCHANGED <<x_report, n_vars, f_vars, h_vars>>

ExtractInit ==
    /\ x_pc = "input"
    /\ x_report \in Reports
    /\ x_out = Returned(<<>>)
    /\ NerIdle /\ FlowIdle /\ HttpIdle

ExtractNext == ExtractDiagnosis

ExtractSpec == ExtractInit /\ [][ExtractNext]_vars

-----------------------------------------------------------------------------
(* Specification FlowSpec: one run of CdssPipeline(sample_text, key).kickoff() *)

\* CdssPipeline.__init__
FlowInit ==
    /\ flow_status = "created"
    /\ sample_text \in SampleTexts
    /\ state = <<>>
    /\ m_status = [m \in Methods |-> "idle"]
    /\ exec_count = [m \in Methods |-> 0]
    /\ arg = [m \in Methods |-> None]
    /\ ret = [m \in Methods |-> None]
    /\ pending_and = <<>>
    /\ order = <<>>
    /\ crew_inputs = [c \in {"ner_validation_crew", "prelim_diag_crew",
                             "report_writing_crew"} |-> None]
    /\ NerIdle /\ ExtractIdle /\ HttpIdle

\* flow.kickoff(): the start methods are started
Kickoff ==
    /\ flow_status = "created"
    /\ flow_status' = "running"
    /\ m_status' = [m \in Methods |-> IF m \in start_methods THEN "running" ELSE "idle"]
    /\ exec_count' = [m \in Methods |-> IF m \in start_methods THEN 1 ELSE 0]
    /\ order' = SelectSeq(DefinitionOrder, LAMBDA m : m \in start_methods)
    /\ UNCHANGED <<sample_text, state, arg, ret, pending_and, crew_inputs>>
    /\ UNCHANGED <<n_vars, x_vars, h_vars>>

Running(m) == flow_status = "running" /\ m_status[m] = "running"

\* initial_hugging_face_ner_report: the KeyError of generate_clean_ner_report
\* leaves the method
InitialHuggingFaceNerReport ==
    /\ Running("initial_hugging_face_ner_report")
    /\ \E result \in FlowNerResults :
          LET out == process_ner_output(result)
              rep == generate_clean_ner_report(out[1], out[2])
          IN  IF rep.error
              THEN Abort("initial_hugging_face_ner_report")
              ELSE Complete("initial_hugging_face_ner_report",
                            [report |-> rep.report, sample_text |-> sample_text])
    /\ UNCHANGED <<sample_text, state, crew_inputs, n_vars, x_vars, h_vars>>

\* ner_validation_method
NerValidationMethod ==
    /\ Running("ner_validation_method")
    /\ LET report_dict == arg["ner_validation_method"][1]
           inputs == [input_text |-> report_dict["sample_text"],
                      ner_output |-> report_dict["report"]]
       IN  /\ crew_inputs' = [crew_inputs EXCEPT !["ner_validation_crew"] = Some(inputs)]
           /\ \/ \E post_ner_report \in PostNerReports :
                    /\ state' = store_post_ner_report(state, post_ner_report)
                    /\ Complete("ner_validation_method", post_ner_report)
              \/ /\ Abort("ner_validation_method")
                 /\ UNCHANGED state
    /\ UNCHANGED <<sample_text, n_vars, x_vars, h_vars>>

\* prelim_diag_method
PrelimDiagMethod ==
    /\ Running("prelim_diag_method")
    /\ LET inputs == [output_count |-> 3,
                      post_ner_report |-> arg["prelim_diag_method"][1]]
       IN  /\ crew_inputs' = [crew_inputs EXCEPT !["prelim_diag_crew"] = Some(inputs)]
           /\ \/ \E prelim_report \in FlowReports :
                    /\ state' = store_prelim_report(state, prelim_report)
                    /\ Complete("prelim_diag_method", prelim_report)
              \/ /\ Abort("prelim_diag_method")
                 /\ UNCHANGED state
    /\ UNCHANGED <<sample_text, n_vars, x_vars, h_vars>>

\* extract_diagnosis_method, called by the flow
ExtractDiagnosisMethod ==
    /\ Running("extract_diagnosis_method")
    /\ LET out == extract_diagnosis_method(arg["extract_diagnosis_method"][1])
       IN  IF out.raised
           THEN Abort("extract_diagnosis_method")
           ELSE Complete("extract_diagnosis_method", out.value)
    /\ UNCHANGED <<sample_text, state, crew_inputs, n_vars, x_vars, h_vars>>

\* best_practises: one search per diagnosis, any of which may raise
BestPractises ==
    /\ Running("best_practises")
    /\ LET diagnosis == arg["best_practises"][1]
       IN  \/ \E responses \in [1..Len(diagnosis) -> TavilyResponses] :
                LET summary == best_practices_summary(diagnosis, responses)
                IN  /\ state' = store_best_practices_summary(state, summary)
                    /\ Complete("best_practises", summary)
           \/ /\ diagnosis # <<>>
              /\ Abort("best_practises")
              /\ UNCHANGED state
    /\ UNCHANGED <<sample_text, crew_inputs, n_vars, x_vars, h_vars>>

\* report_writing_method: a key missing from self.state is a KeyError
ReportWritingMethod ==
    /\ Running("report_writing_method")
    /\ IF report_state_keys \subseteq DOMAIN state
       THEN LET inputs == [post_ner_report  |-> state["post_ner_report"],
                           prelim_diagnosis |-> state["prelim_report"],
                           best_pracs       |-> state["best_practices_summary"]]
            IN  /\ crew_inputs' = [crew_inputs EXCEPT !["report_writing_crew"] = Some(inputs)]
                /\ \/ \E result \in FinalReports : Complete("report_writing_method", result)
                   \/ Abort("report_writing_method")
       ELSE /\ Abort("report_writing_method")
            /\ UNCHANGED crew_inputs
    /\ UNCHANGED <<sample_text, state, n_vars, x_vars, h_vars>>

FlowNext ==
    \/ Kickoff
    \/ InitialHuggingFaceNerReport
    \/ NerValidationMethod
    \/ PrelimDiagMethod
    \/ ExtractDiagnosisMethod
    \/ BestPractises
    \/ ReportWritingMethod

FlowSpec == FlowInit /\ [][FlowNext]_vars

-----------------------------------------------------------------------------
(* Specification HttpSpec: the server answers requests one after another *)

HttpInit ==
    /\ h_pc = "idle"
    /\ h_endpoint = ""
    /\ h_request = <<>>
    /\ h_calls = 0
    /\ h_outcome = Returned(<<>>)
    /\ h_response = <<>>
    /\ h_served = 0
    /\ NerIdle /\ ExtractIdle /\ FlowIdle

\* a request reaches the handler of endpoint, which makes its wrapped call
Enter(endpoint) ==
    /\ h_pc \in {"idle", "responded"}
    /\ h_served < MaxRequests
    /\ \E body \in RequestBodies(endpoint) : h_request' = body
    /\ h_endpoint' = endpoint
    /\ h_pc' = "calling"
    /\ h_calls' = 1
    /\ h_outcome' = Returned(<<>>)
    /\ h_response' = <<>>
    /\ UNCHANGED <<h_served, n_vars, x_vars, f_vars>>

\* app.py:54-64
run_ner ==
    /\ Enter("/agent/ner/")

\* app.py:67-77
run_prelim ==
    /\ Enter("/agent/prelim/")

\* app.py:80-91
run_report ==
    /\ Enter("/agent/report/")

\* app.py:98-105
rag_freeform ==
    /\ Enter("/medicine/query")

\* app.py:108-115
medicine_info ==
    /\ Enter("/medicine/info")

\* app.py:118-128
medicine_compare ==
    /\ Enter("/medicine/compare")

\* the wrapped call returns: the handler leaves through the return of its try
CallReturns ==
    /\ h_pc = "calling"
    /\ \E result \in CallResults(h_endpoint) :
          /\ h_outcome' = Returned(result)
          /\ h_response' = on_success(h_endpoint, result)
    /\ h_pc' = "responded"
    /\ h_served' = h_served + 1
    /\ UNCHANGED <<h_endpoint, h_request, h_calls, n_vars, x_vars, f_vars>>

\* the wrapped call raises: the handler leaves through its except clause
CallRaises ==
    /\ h_pc = "calling"
    /\ \E e \in Exceptions :
          /\ h_outcome' = [raised |-> TRUE, value |-> e]
          /\ h_response' = on_exception(h_endpoint, e)
    /\ h_pc' = "responded"
    /\ h_served' = h_served + 1
    /\ UNCHANGED <<h_endpoint, h_request, h_calls, n_vars, x_vars, f_vars>>

HttpNext ==
    \/ run_ner
    \/ run_prelim
    \/ run_report
    \/ rag_freeform
    \/ medicine_info
    \/ medicine_compare
    \/ CallReturns
    \/ CallRaises

HttpSpec == HttpInit /\ [][HttpNext]_vars

-----------------------------------------------------------------------------
(* Claims about hugging_face_ner.py, checked under NerSpec *)

\* the positions of result whose label is not O
NonO(result) == {i \in 1..Len(result) : result[i][2] # <<"O">>}

\* the categories that occur in result with a B- label, as entry[2:] yields them
BCats(result) ==
    {<<c>> : c \in {d \in Categories :
                      \E i \in 1..Len(result) : result[i][2] = <<"B", "-", d>>}}

\* the first position of result labelled B-<cat>
FirstB(result, cat) ==
    CHOOSE i \in 1..Len(result) :
        /\ result[i][2] = <<"B", "-">> \o cat
        /\ \A j \in 1..(i - 1) : result[j][2] # <<"B", "-">> \o cat

\* tagged holds one pair per non-O position of result, in token order, the
\* token as the tokenizer gave it or, when stripped, without its leading marks
KeepsNonO(result, tagged, stripped) ==
    /\ Len(tagged) = Cardinality(NonO(result))
    /\ \A i \in NonO(result) :
         tagged[Cardinality({j \in NonO(result) : j <= i})]
             = <<IF stripped THEN lstrip(result[i][1], "_") ELSE result[i][1],
                 result[i][2]>>

\* tags lists each B- category of result once, in order of first occurrence
TagsInFirstOccurrenceOrder(result, tags) ==
    /\ {tags[i] : i \in 1..Len(tags)} = BCats(result)
    /\ \A i, j \in 1..Len(tags) : i # j => tags[i] # tags[j]
    /\ \A i, j \in 1..Len(tags) :
         i < j => FirstB(result, tags[i]) < FirstB(result, tags[j])

\* C7 as stated: filtered_result holds exactly the (token, label) pairs whose
\* label is not O, the tokens as the tokenizer gave them, in token order, and
\* unique_tags holds each B- category once, in order of first occurrence.
C7_AsStated ==
    n_pc # "input" =>
        /\ KeepsNonO(n_result, n_tagged, FALSE)
        /\ TagsInFirstOccurrenceOrder(n_result, n_tags)

\* C7 amended: filtered_result holds, for each pair whose label is not O and
\* in token order, the pair (token with its leading U+2581 marks stripped,
\* label); unique_tags holds each category that occurs with a B- label exactly
\* once, in order of first occurrence, without duplicates.
C7_FilteredAndUniqueTags ==
    n_pc # "input" =>
        /\ KeepsNonO(n_result, n_tagged, TRUE)
        /\ TagsInFirstOccurrenceOrder(n_result, n_tags)

\* an O pair was dropped, a leading mark was stripped from a kept token, and
\* a category that occurs twice with B- was listed once
C7_Witness ==
    /\ n_pc = "processed"
    /\ Len(n_result) = 3
    /\ Len(n_tagged) = 2
    /\ Len(n_tags) = 1
    /\ \A i \in 1..2 : startswith(n_tagged[i][2], <<"B", "-">>)
    /\ \E i \in NonO(n_result) : Head(n_result[i][1]) = "_"

\* the tagged tokens that the loop of generate_clean_ner_report does not skip,
\* with the marks removed
Cleaned(tagged) ==
    SelectSeq([i \in 1..Len(tagged) |-> <<replace_all(tagged[i][1], "_"), tagged[i][2]>>],
              LAMBDA p : p[1] \notin unwanted_tokens)

IsB(tag) == startswith(tag, <<"B", "-">>)

\* the last position of the entity opened at the B- position i of c: the
\* directly following I- tags of the same category belong to it
EntityEnd(c, i) ==
    CHOOSE j \in i..Len(c) :
        /\ \A k \in (i + 1)..j : c[k][2] = <<"I", "-">> \o slice_from(c[i][2], 2)
        /\ (j < Len(c) => c[j + 1][2] # <<"I", "-">> \o slice_from(c[i][2], 2))

EntityText(c, i) ==
    join(<<" ">>, [k \in 1..(EntityEnd(c, i) - i + 1) |-> c[i + k - 1][1]])

\* the entities of category cat in order of appearance
ExpectedEntities(c, cat) ==
    LET starts == SelectSeq([i \in 1..Len(c) |-> i],
                            LAMBDA i : IsB(c[i][2]) /\ slice_from(c[i][2], 2) = cat)
    IN  [n \in 1..Len(starts) |-> EntityText(c, starts[n])]

GroupedAsClaimed(tagged, outcome) ==
    LET c == Cleaned(tagged)
        opened == {slice_from(c[i][2], 2) : i \in {k \in 1..Len(c) : IsB(c[k][2])}}
    IN  /\ ~outcome.error
        /\ opened \subseteq DOMAIN outcome.report
        /\ \A cat \in DOMAIN outcome.report :
             /\ outcome.report[cat] = ExpectedEntities(c, cat)
             /\ \A n \in 1..Len(outcome.report[cat]) :
                  \A k \in 1..Len(outcome.report[cat][n]) :
                     outcome.report[cat][n][k] \notin {"[CLS]", "[SEP]"}

\* C8: every B-X token opens an entity of category X, the directly following
\* I-X tokens are appended to it, and every closed entity is appended exactly
\* once to report[X], its tokens joined by single spaces, in order of
\* appearance; [CLS] and [SEP] appear in no entity.
C8_EntityGrouping ==
    n_pc = "done" => GroupedAsClaimed(n_tagged, n_report)

\* C9: run_medical_ner completes without a lookup error on every labelled
\* token sequence, B-SEVERITY and I-SEVERITY included; the report has no
\* SEVERITY key.
C9_NoLookupError ==
    n_pc = "done" =>
        /\ ~n_report.error
        /\ <<"SEVERITY">> \notin DOMAIN n_report.report

-----------------------------------------------------------------------------
(* Claim about extract_diagnosis_method, checked under ExtractSpec *)

\* a container with an entries list whose entries all carry the attribute
EntriesAreObjects(r) ==
    /\ can_iterate_entries(r)
    /\ \A i \in 1..Len(r.entries) :
         r.entries[i].kind = "object" /\ r.entries[i].has_diag

\* a dict with an entries list of dicts
IsDictOfDicts(r) ==
    /\ r.kind = "dict" /\ r.has_entries /\ r.entries_is_list
    /\ \A i \in 1..Len(r.entries) : r.entries[i].kind = "dict"

\* one element per entry, in order
OnePerEntry(r, out) ==
    /\ Len(out) = Len(r.entries)
    /\ \A i \in 1..Len(out) :
         r.entries[i].has_diag /\ out[i] = Text(r.entries[i].preliminary_diagnosis)

\* C6: extract_diagnosis_method never raises and returns one diagnosis per
\* entry, in order, for a report whose entries are objects with the attribute
\* and for a dict with an entries list of dicts, and [str(prelim_report)] for
\* any other value.
C6_NeverRaises ==
    x_pc = "done" =>
        /\ ~x_out.raised
        /\ IF EntriesAreObjects(x_report) \/ IsDictOfDicts(x_report)
           THEN OnePerEntry(x_report, x_out.value)
           ELSE x_out.value = <<str(x_report)>>

-----------------------------------------------------------------------------
(* Claims about CdssPipeline, checked under FlowSpec *)

Started(m) == m_status[m] # "idle"

FanInSources == {"ner_validation_method", "prelim_diag_method", "best_practises"}

\* C1: report_writing_method is started only when ner_validation_method,
\* prelim_diag_method and best_practises have all returned in this run, never
\* while one of them is pending, and at most once per run.
C1_FanIn ==
    /\ Started("report_writing_method") =>
          \A m \in FanInSources : m_status[m] = "done" /\ ret[m] # None
    /\ exec_count["report_writing_method"] <= 1

\* report_writing_method has been started and has not returned yet
C1_Witness ==
    /\ flow_status = "running"
    /\ m_status["report_writing_method"] = "running"
    /\ exec_count["report_writing_method"] = 1

\* C2: when report_writing_method reads self.state, the keys post_ner_report,
\* prelim_report and best_practices_summary are present and hold the values
\* that ner_validation_method, prelim_diag_method and best_practises returned
\* in this run, and these are the values handed to report_writing_crew.
C2_StatePropagation ==
    /\ Started("report_writing_method") =>
          /\ report_state_keys \subseteq DOMAIN state
          /\ Some(state["post_ner_report"]) = ret["ner_validation_method"]
          /\ Some(state["prelim_report"]) = ret["prelim_diag_method"]
          /\ Some(state["best_practices_summary"]) = ret["best_practises"]
    /\ (flow_status # "idle" /\ crew_inputs["report_writing_crew"] # None) =>
          LET inputs == crew_inputs["report_writing_crew"][1]
          IN  /\ Some(inputs.post_ner_report) = ret["ner_validation_method"]
              /\ Some(inputs.prelim_diagnosis) = ret["prelim_diag_method"]
              /\ Some(inputs.best_pracs) = ret["best_practises"]

\* report_writing_method has read the state of a run with a diagnosis to search
C2_Witness ==
    /\ flow_status = "finished"
    /\ crew_inputs["report_writing_crew"] # None
    /\ state["best_practices_summary"] # <<>>
    /\ state["post_ner_report"] = "validated_2"

\* the order of the steps and the upstream step of each, as claimed
ClaimedOrder ==
    <<"initial_hugging_face_ner_report", "ner_validation_method", "prelim_diag_method",
      "extract_diagnosis_method", "best_practises", "report_writing_method">>

Upstream(m) ==
    CASE m = "ner_validation_method"    -> "initial_hugging_face_ner_report"
      [] m = "prelim_diag_method"       -> "ner_validation_method"
      [] m = "extract_diagnosis_method" -> "prelim_diag_method"
      [] m = "best_practises"           -> "extract_diagnosis_method"
      [] m = "report_writing_method"    -> "best_practises"

Downstream == Methods \ {"initial_hugging_face_ner_report"}

\* the steps were started in the claimed order, each at most once, each only
\* after its upstream step returned
LinearOrder ==
    /\ flow_status # "idle" =>
          /\ \E n \in 0..Len(ClaimedOrder) : order = SubSeq(ClaimedOrder, 1, n)
          /\ \A m \in Methods : exec_count[m] <= 1
          /\ \A m \in Downstream : Started(m) => m_status[Upstream(m)] = "done"

\* C3 as stated: the steps run in the fixed order, each after its upstream
\* step returned and with that step's return value as its argument, none
\* more than once.
C3_AsStated ==
    /\ LinearOrder
    /\ flow_status # "idle" =>
          \A m \in Downstream : Started(m) => arg[m] = ret[Upstream(m)]

\* C3 amended: the steps run in the fixed order, each after its upstream step
\* returned and none more than once; ner_validation_method,
\* prelim_diag_method, extract_diagnosis_method and best_practises receive
\* their upstream step's return value as their argument, and
\* report_writing_method, which has no parameter, receives no argument.
C3_LinearOrder ==
    /\ LinearOrder
    /\ flow_status # "idle" =>
          /\ \A m \in Downstream \ {"report_writing_method"} :
                Started(m) => arg[m] = ret[Upstream(m)]
          /\ arg["report_writing_method"] = None

\* all six steps have run
C3_Witness ==
    /\ flow_status = "finished"
    /\ order = ClaimedOrder
    /\ ret["report_writing_method"] = Some("final_1")

RECURSIVE Total(_, _)
\* the sum of f over the set S
Total(f, S) ==
    IF S = {} THEN 0
    ELSE LET x == CHOOSE y \in S : TRUE IN f[x] + Total(f, S \ {x})

\* C4 as stated: a complete run executes exactly five step methods.
C4_AsStated ==
    flow_status = "finished" => Total(exec_count, Methods) = 5

\* C4 amended: a complete run executes exactly six step methods, each of the
\* six methods of CdssPipeline once, whatever the input text.
C4_SixSteps ==
    flow_status = "finished" =>
        /\ Total(exec_count, Methods) = 6
        /\ \A m \in Methods : exec_count[m] = 1 /\ m_status[m] = "done"

\* a run of the second sample text is complete
C4_Witness ==
    /\ flow_status = "finished"
    /\ sample_text = "note_2"
    /\ Total(exec_count, Methods) = 6

-----------------------------------------------------------------------------
(* Claim about the handlers, checked under HttpSpec *)

\* the prefix that each endpoint's error detail starts with
ClaimedPrefix ==
    [e \in Endpoints |->
        CASE e = "/agent/ner/"       -> "NER Error: "
          [] e = "/agent/prelim/"    -> "Prelim Error: "
          [] e = "/agent/report/"    -> "Report Error: "
          [] e = "/medicine/query"   -> "RAG Error: "
          [] e = "/medicine/info"    -> "MedicineInfo Error: "
          [] e = "/medicine/compare" -> "MedicineCompare Error: "]

\* C5: on each of the six endpoints, a wrapped call that raises ends the
\* request in an HTTP 500 error whose detail is the endpoint's own prefix
\* followed by the exception message, without a retry and without the
\* exception leaving the handler; a wrapped call that returns ends it in a
\* normal response.
C5_FailureHandling ==
    h_pc = "responded" =>
        /\ h_calls = 1
        /\ h_response.kind # "unhandled"
        /\ h_outcome.raised =>
              /\ h_response.kind = "HTTPException"
              /\ h_response.status_code = 500
              /\ h_response.detail = <<ClaimedPrefix[h_endpoint], h_outcome.value.message>>
        /\ ~h_outcome.raised =>
              /\ h_response.kind = "response"
              /\ h_response.status_code = 200

\* a comparison failed after an earlier request was answered
C5_Witness ==
    /\ h_pc = "responded"
    /\ h_endpoint = "/medicine/compare"
    /\ h_outcome.raised
    /\ h_outcome.value.message = "quota"
    /\ h_response.status_code = 500
    /\ h_served = 2

=============================================================================
